---- MODULE Spec2Model ----
(***************************************************************************)
(* Model of RadarApp (src/RadarAnimation.py): the pattern-sequence builder *)
(* and the sweep-animation state machine driven by Tk callbacks.           *)
(*                                                                         *)
(* Angles and speeds are kept in hundredths (90 degrees = 9000, a speed of *)
(* -.35 = -35), so that abs(speed) * 5 is an exact integer number of       *)
(* hundredths of a degree.  Step indices are 0-based as in the source.     *)
(* An attribute the constructor does not create (selected_vcp, sweep_speed,*)
(* cone_angle_width, current_label, sweep_radius) holds "unset" / 0 until  *)
(* its first assignment; current_label = "unset" marks the four render     *)
(* attributes, which advance_pattern_step always assigns together.         *)
(* The source computes the angle in binary floating point; where a sweep   *)
(* lands exactly on -270 in hundredths (speed -.08 at 4x, -.09 at 1x and   *)
(* 8x) the float lands a few ulps above it and the step takes one more     *)
(* tick there than it does in this model.                                  *)
(* sweep_progress is left out: the source only ever writes it (in          *)
(* advance_pattern_step and animate) and no handler reads it.              *)
(***************************************************************************)
EXTENDS Integers, Sequences, FiniteSets, TLC

VARIABLES
    angle, running, vcp_selected, speed_multiplier, fast_mode,
    pattern_step_index, pattern_sequence,
    selected_vcp, sails_var, mrle_var,
    sweep_speed, cone_angle_width, current_label, sweep_radius,
    toggle_button, sails_dropdown, mrle_dropdown, sails_menu,
    pending, lastOp

vars == <<angle, running, vcp_selected, speed_multiplier, fast_mode,
          pattern_step_index, pattern_sequence,
          selected_vcp, sails_var, mrle_var,
          sweep_speed, cone_angle_width, current_label, sweep_radius,
          toggle_button, sails_dropdown, mrle_dropdown, sails_menu,
          pending, lastOp>>

(* Bounds *)
MaxPending == 2

(* ---------------- catalog (build_pattern_sequence) -------------------- *)

Single(label, ang, speed, rng) ==
    [label |-> label, angle |-> ang, speed |-> speed, cone_width |-> 8, range |-> rng]

Dual_WithRange(ang, speed, rz, rv) ==
    [label |-> "Z/V", angle |-> ang, speed |-> speed, cone_width |-> 8,
     range |-> rz, range_z |-> rz, range_v |-> rv]

Dual(ang, speed, rz, rv) ==
    [label |-> "Z/V", angle |-> ang, speed |-> speed, cone_width |-> 8,
     range_z |-> rz, range_v |-> rv]

vcp_buttons == {"VCP 12", "VCP 35", "VCP 212", "VCP 215"}

UnknownVcp == "VCP 0"

VCP212 == <<
    Single("Z", "0.5", -35, 250), Single("V", "0.5", -29, 74),
    Single("Z", "0.9", -35, 250), Single("V", "0.9", -29, 74),
    Single("Z", "1.3", -38, 231), Single("V", "1.3", -29, 74),
    Dual("1.8", -43, 208, 80), Dual("2.4", -46, 181, 80),
    Dual("3.1", -46, 158, 80), Dual("4.0", -46, 134, 80),
    Dual("5.1", -46, 113, 80), Dual("6.4", -46, 94, 80),
    Single("V", "8.0", -50, 74), Single("V", "10.0", -50, 68),
    Single("V", "12.5", -50, 63), Single("V", "15.6", -50, 63),
    Single("V", "19.5", -50, 63) >>

VCP35 == <<
    Single("Z", "0.5", -8, 250), Single("V", "0.5", -26, 80),
    Single("Z", "0.9", -8, 250), Single("V", "0.9", -26, 80),
    Single("Z", "1.3", -9, 231), Single("V", "1.3", -26, 80),
    Dual("1.8", -26, 208, 80), Dual("2.4", -30, 181, 80),
    Dual("3.1", -29, 158, 80), Dual("4.0", -30, 134, 80),
    Dual("5.1", -30, 134, 80), Dual("6.4", -30, 134, 80) >>

VCP215 == <<
    Single("Z", "0.5", -19, 250), Single("V", "0.5", -29, 74),
    Single("Z", "0.9", -22, 250), Single("V", "0.9", -29, 74),
    Single("Z", "1.3", -26, 231), Single("V", "1.3", -29, 74),
    Dual("1.8", -29, 208, 80), Dual("2.4", -33, 181, 80),
    Dual("3.1", -33, 158, 80), Dual("4.0", -33, 134, 80),
    Dual("5.1", -33, 134, 80), Dual("6.4", -33, 134, 80),
    Single("V", "8.0", -43, 63), Single("V", "10.0", -43, 63),
    Single("V", "12.0", -43, 63), Single("V", "14.0", -43, 63),
    Single("V", "16.7", -43, 63), Single("V", "19.5", -43, 63) >>

VCP12 == <<
    Single("Z", "0.5", -35, 250), Single("V", "0.5", -40, 80),
    Single("Z", "0.9", -35, 250), Single("V", "0.9", -40, 80),
    Single("Z", "1.3", -38, 231), Single("V", "1.3", -40, 80),
    Dual("1.8", -43, 208, 80), Dual("2.4", -43, 181, 80),
    Dual("3.1", -43, 158, 80), Dual("4.0", -46, 134, 80),
    Dual("5.1", -43, 134, 80), Dual("6.4", -43, 134, 80),
    Single("V", "8.0", -46, 74), Single("V", "10.0", -46, 68),
    Single("V", "12.5", -46, 63), Single("V", "15.6", -46, 63),
    Single("V", "19.5", -46, 63) >>

(* patterns.get(self.selected_vcp, []) *)
patterns(name) ==
    CASE name = "VCP 212" -> VCP212
      [] name = "VCP 35"  -> VCP35
      [] name = "VCP 215" -> VCP215
      [] name = "VCP 12"  -> VCP12
      [] OTHER            -> << >>

sails_scans == << Single("Z", "0.5", -50, 250), Single("V", "0.5", -50, 80) >>

(* insert_points.get(sails, []) *)
sails_insert_points(sails) ==
    CASE sails = "SAILS 1" -> << "3.1" >>
      [] sails = "SAILS 2" -> << "1.8", "6.4" >>
      [] sails = "SAILS 3" -> << "1.3", "4.0", "8.0" >>
      [] OTHER             -> << >>

InsertAfter_OffByOne(pattern, k, block) ==
    SubSeq(pattern, 1, k - 1) \o block \o SubSeq(pattern, k, Len(pattern))

(* pattern[i + 1:i + 1] = block, for the 0-based Python index i = k - 1 *)
InsertAfter(pattern, k, block) ==
    SubSeq(pattern, 1, k) \o block \o SubSeq(pattern, k + 1, Len(pattern))

(* The reversed scan of the SAILS loop: the set of 1-based positions at    *)
(* which the loop body would insert and break; the scan takes the largest. *)
SailsMatches(pattern, ang, sails) ==
    { k \in 1..Len(pattern) :
        /\ pattern[k].angle = ang
        /\ \/ (ang = "1.3" /\ sails = "SAILS 3" /\ pattern[k].label = "V")
           \/ (ang # "1.3" \/ sails # "SAILS 3") }

Max(S) == CHOOSE x \in S : \A y \in S : y <= x

SailsInsertOne(pattern, ang, sails) ==
    LET m == SailsMatches(pattern, ang, sails) IN
    IF m = {} THEN pattern ELSE InsertAfter(pattern, Max(m), sails_scans)

RECURSIVE SailsInsertAll(_, _, _)
SailsInsertAll(pattern, anchors, sails) ==
    IF anchors = << >> THEN pattern
    ELSE SailsInsertAll(SailsInsertOne(pattern, Head(anchors), sails),
                        Tail(anchors), sails)

(* int(mrle[-1]) *)
MrleCount(mrle) ==
    CASE mrle = "MRLE 2" -> 2
      [] mrle = "MRLE 3" -> 3
      [] mrle = "MRLE 4" -> 4

mrle_scans_Gt3(count) ==
    << Single("Z", "0.5", -35, 250), Single("V", "0.5", -40, 80),
       Single("Z", "0.9", -35, 250), Single("V", "0.9", -40, 80) >>
    \o (IF count > 3
        THEN << Single("Z", "1.3", -38, 231), Single("V", "1.3", -40, 80) >>
        ELSE << >>)
    \o (IF count = 4 THEN << Dual("1.8", -43, 208, 80) >> ELSE << >>)

mrle_scans(count) ==
    << Single("Z", "0.5", -35, 250), Single("V", "0.5", -40, 80),
       Single("Z", "0.9", -35, 250), Single("V", "0.9", -40, 80) >>
    \o (IF count >= 3
        THEN << Single("Z", "1.3", -38, 231), Single("V", "1.3", -40, 80) >>
        ELSE << >>)
    \o (IF count = 4 THEN << Dual("1.8", -43, 208, 80) >> ELSE << >>)

MrleInsert(pattern, mrle) ==
    LET pts == { k \in 1..Len(pattern) : pattern[k].angle = "5.1" } IN
    IF pts = {} THEN pattern
    ELSE InsertAfter(pattern, Max(pts), mrle_scans(MrleCount(mrle)))

mrle_menu == {"None", "MRLE 2", "MRLE 3", "MRLE 4"}

(* build_pattern_sequence as a function of the three attributes it reads *)
BuildSequence(vcp, sails, mrle) ==
    LET base == patterns(vcp) IN
    IF base = << >> THEN << >>
    ELSE LET p1 == IF sails # "None"
                   THEN SailsInsertAll(base, sails_insert_points(sails), sails)
                   ELSE base
         IN IF mrle # "None" /\ vcp \in {"VCP 212", "VCP 12"}
            THEN MrleInsert(p1, mrle)
            ELSE p1

(* ---------------- the RadarApp object -------------------------------- *)

(* The attributes of the RadarApp instance, the state of the widgets the   *)
(* handlers configure, and the number of animate callbacks root.after has  *)
(* scheduled and not yet run.                                              *)
Self ==
    [angle |-> angle, running |-> running, vcp_selected |-> vcp_selected,
     speed_multiplier |-> speed_multiplier, fast_mode |-> fast_mode,
     pattern_step_index |-> pattern_step_index,
     pattern_sequence |-> pattern_sequence,
     selected_vcp |-> selected_vcp, sails_var |-> sails_var, mrle_var |-> mrle_var,
     sweep_speed |-> sweep_speed, cone_angle_width |-> cone_angle_width,
     current_label |-> current_label, sweep_radius |-> sweep_radius,
     toggle_button |-> toggle_button, sails_dropdown |-> sails_dropdown,
     mrle_dropdown |-> mrle_dropdown, sails_menu |-> sails_menu,
     pending |-> pending]

Assign(s) ==
    /\ angle' = s.angle
    /\ running' = s.running
    /\ vcp_selected' = s.vcp_selected
    /\ speed_multiplier' = s.speed_multiplier
    /\ fast_mode' = s.fast_mode
    /\ pattern_step_index' = s.pattern_step_index
    /\ pattern_sequence' = s.pattern_sequence
    /\ selected_vcp' = s.selected_vcp
    /\ sails_var' = s.sails_var
    /\ mrle_var' = s.mrle_var
    /\ sweep_speed' = s.sweep_speed
    /\ cone_angle_width' = s.cone_angle_width
    /\ current_label' = s.current_label
    /\ sweep_radius' = s.sweep_radius
    /\ toggle_button' = s.toggle_button
    /\ sails_dropdown' = s.sails_dropdown
    /\ mrle_dropdown' = s.mrle_dropdown
    /\ sails_menu' = s.sails_menu
    /\ pending' = s.pending

Abs(x) == IF x < 0 THEN -x ELSE x

(* RadarApp.__init__: the logic attributes and the initial widget states *)
Init ==
    /\ angle = 9000
    /\ running = FALSE
    /\ vcp_selected = FALSE
    /\ speed_multiplier = 1
    /\ fast_mode = 1
    /\ pattern_step_index = 0
    /\ pattern_sequence = << >>
    /\ selected_vcp = "unset"
    /\ sails_var = "None"
    /\ mrle_var = "None"
    /\ sweep_speed = 0
    /\ cone_angle_width = 0
    /\ current_label = "unset"
    /\ sweep_radius = 0
    /\ toggle_button = "disabled"
    /\ sails_dropdown = "normal"
    /\ mrle_dropdown = "normal"
    /\ sails_menu = {"None", "SAILS 1", "SAILS 2", "SAILS 3"}
    /\ pending = 0
    /\ lastOp = "init"

(* every sequence build_pattern_sequence can be asked for, computed once *)
BuildTable ==
    [vcp \in vcp_buttons \cup {UnknownVcp} |->
        [sails \in {"None", "SAILS 1", "SAILS 2", "SAILS 3"} |->
            [mrle \in mrle_menu |-> BuildSequence(vcp, sails, mrle)]]]

(* build_pattern_sequence *)
build_pattern_sequence(s) ==
    [s EXCEPT !.pattern_sequence =
        BuildTable[s.selected_vcp][s.sails_var][s.mrle_var]]

(* the radius advance_pattern_step loads for a step *)
StepRadius(pattern) ==
    IF pattern.label # "Z/V" THEN pattern.range
    ELSE LET rz == IF "range_z" \in DOMAIN pattern THEN pattern.range_z ELSE 0
             rv == IF "range_v" \in DOMAIN pattern THEN pattern.range_v ELSE 0
         IN IF rz >= rv THEN rz ELSE rv

(* without the index guard the lookup raises IndexError after angle = 90 *)
advance_pattern_step_NoClamp(s) ==
    IF s.pattern_sequence = << >>
    THEN [s EXCEPT !.running = FALSE]
    ELSE IF s.pattern_step_index >= Len(s.pattern_sequence)
    THEN [s EXCEPT !.angle = 9000]
    ELSE LET pattern == s.pattern_sequence[s.pattern_step_index + 1]
         IN [s EXCEPT !.angle = 9000,
                      !.sweep_speed = pattern.speed * s.speed_multiplier,
                      !.cone_angle_width = pattern.cone_width,
                      !.current_label = pattern.label,
                      !.sweep_radius = StepRadius(pattern)]

advance_pattern_step(s) ==
    IF s.pattern_sequence = << >>
    THEN [s EXCEPT !.running = FALSE]
    ELSE LET idx == IF s.pattern_step_index >= Len(s.pattern_sequence)
                    THEN 0 ELSE s.pattern_step_index
             pattern == s.pattern_sequence[idx + 1]
         IN [s EXCEPT !.pattern_step_index = idx,
                      !.angle = 9000,
                      !.sweep_speed = pattern.speed * s.speed_multiplier,
                      !.cone_angle_width = pattern.cone_width,
                      !.current_label = pattern.label,
                      !.sweep_radius = StepRadius(pattern)]

(* draw_sweep_cone raises: AttributeError when the render attributes were  *)
(* never assigned, IndexError when a Z/V label is current and the index is *)
(* outside the sequence.  It changes no modelled attribute otherwise.      *)
draw_sweep_cone_raises(s) ==
    \/ s.current_label = "unset"
    \/ /\ s.current_label = "Z/V"
       /\ s.pattern_step_index >= Len(s.pattern_sequence)

(* root.after(25, self.animate) *)
after(s) == [s EXCEPT !.pending = @ + 1]

animate_NoAngleReset(s) ==
    IF ~s.running THEN s
    ELSE IF draw_sweep_cone_raises(s) THEN s
    ELSE
      LET inc == Abs(s.sweep_speed) * 5
          s1 == [s EXCEPT !.angle = @ - inc]
      IN IF s1.angle <= -27000
         THEN LET s2 == [s1 EXCEPT !.pattern_step_index = @ + 1]
              IN IF s2.pattern_step_index >= Len(s2.pattern_sequence)
                 THEN [s2 EXCEPT !.pattern_step_index = 0, !.running = FALSE]
                 ELSE after(advance_pattern_step(s2))
         ELSE after(s1)

animate_StrictBoundary(s) ==
    IF ~s.running THEN s
    ELSE IF draw_sweep_cone_raises(s) THEN s
    ELSE
      LET inc == Abs(s.sweep_speed) * 5
          s1 == [s EXCEPT !.angle = @ - inc]
      IN IF s1.angle < -27000
         THEN LET s2 == [s1 EXCEPT !.angle = 9000, !.pattern_step_index = @ + 1]
              IN IF s2.pattern_step_index >= Len(s2.pattern_sequence)
                 THEN [s2 EXCEPT !.pattern_step_index = 0, !.running = FALSE]
                 ELSE after(advance_pattern_step(s2))
         ELSE after(s1)

animate_NoAbs(s) ==
    IF ~s.running THEN s
    ELSE IF draw_sweep_cone_raises(s) THEN s
    ELSE
      LET inc == s.sweep_speed * 5
          s1 == [s EXCEPT !.angle = @ - inc]
      IN IF s1.angle <= -27000
         THEN LET s2 == [s1 EXCEPT !.angle = 9000, !.pattern_step_index = @ + 1]
              IN IF s2.pattern_step_index >= Len(s2.pattern_sequence)
                 THEN [s2 EXCEPT !.pattern_step_index = 0, !.running = FALSE]
                 ELSE after(advance_pattern_step(s2))
         ELSE after(s1)

animate_NoRunningCheck(s) ==
    IF draw_sweep_cone_raises(s) THEN s
    ELSE
      LET inc == Abs(s.sweep_speed) * 5
          s1 == [s EXCEPT !.angle = @ - inc]
      IN IF s1.angle <= -27000
         THEN LET s2 == [s1 EXCEPT !.angle = 9000, !.pattern_step_index = @ + 1]
              IN IF s2.pattern_step_index >= Len(s2.pattern_sequence)
                 THEN [s2 EXCEPT !.pattern_step_index = 0, !.running = FALSE]
                 ELSE after(advance_pattern_step(s2))
         ELSE after(s1)

animate_NoAutoStop(s) ==
    IF ~s.running THEN s
    ELSE IF draw_sweep_cone_raises(s) THEN s
    ELSE
      LET inc == Abs(s.sweep_speed) * 5
          s1 == [s EXCEPT !.angle = @ - inc]
      IN IF s1.angle <= -27000
         THEN after(advance_pattern_step(
                  [s1 EXCEPT !.angle = 9000, !.pattern_step_index = @ + 1]))
         ELSE after(s1)

(* animate: one tick.  An exception leaves the handler where it was raised *)
animate(s) ==
    IF ~s.running THEN s
    ELSE IF draw_sweep_cone_raises(s) THEN s
    ELSE
      LET inc == Abs(s.sweep_speed) * 5
          s1 == [s EXCEPT !.angle = @ - inc]
      IN IF s1.angle <= -27000
         THEN LET s2 == [s1 EXCEPT !.angle = 9000, !.pattern_step_index = @ + 1]
              IN IF s2.pattern_step_index >= Len(s2.pattern_sequence)
                 THEN [s2 EXCEPT !.pattern_step_index = 0, !.running = FALSE]
                 ELSE after(advance_pattern_step(s2))
         ELSE after(s1)

toggle_animation_NoVcpCheck(s) ==
    IF ~s.running
    THEN LET s1 == advance_pattern_step([s EXCEPT !.pattern_step_index = 0])
         IN animate([s1 EXCEPT !.angle = 9000, !.running = TRUE])
    ELSE [s EXCEPT !.running = FALSE]

toggle_animation_NoIndexReset(s) ==
    IF ~s.vcp_selected THEN s
    ELSE IF ~s.running
    THEN LET s1 == advance_pattern_step(s)
         IN animate([s1 EXCEPT !.angle = 9000, !.running = TRUE])
    ELSE [s EXCEPT !.running = FALSE]

toggle_animation(s) ==
    IF ~s.vcp_selected THEN s
    ELSE IF ~s.running
    THEN LET s1 == advance_pattern_step([s EXCEPT !.pattern_step_index = 0])
         IN animate([s1 EXCEPT !.angle = 9000, !.running = TRUE])
    ELSE [s EXCEPT !.running = FALSE]

speed_multiply_NoReload(s) ==
    LET fm == (s.fast_mode % 4) + 1
    IN [s EXCEPT !.fast_mode = fm, !.speed_multiplier = 2 ^ (fm - 1)]

speed_multiply_Mod3(s) ==
    LET fm == (s.fast_mode % 3) + 1
        s1 == [s EXCEPT !.fast_mode = fm, !.speed_multiplier = 2 ^ (fm - 1)]
    IN IF s1.pattern_sequence # << >> THEN advance_pattern_step(s1) ELSE s1

speed_multiply(s) ==
    LET fm == (s.fast_mode % 4) + 1
        s1 == [s EXCEPT !.fast_mode = fm, !.speed_multiplier = 2 ^ (fm - 1)]
    IN IF s1.pattern_sequence # << >> THEN advance_pattern_step(s1) ELSE s1

sails_selected_NoIndexReset(s) ==
    IF ~s.vcp_selected THEN [s EXCEPT !.sails_var = "None"]
    ELSE
      LET s1 == IF s.sails_var # "None"
                THEN [s EXCEPT !.mrle_var = "None", !.mrle_dropdown = "disabled"]
                ELSE IF s.selected_vcp \in {"VCP 212", "VCP 12"}
                     THEN [s EXCEPT !.mrle_dropdown = "normal"]
                     ELSE s
          s2 == [s1 EXCEPT !.running = FALSE, !.angle = 9000]
      IN advance_pattern_step(build_pattern_sequence(s2))

sails_selected_NoMrleClear(s) ==
    IF ~s.vcp_selected THEN [s EXCEPT !.sails_var = "None"]
    ELSE
      LET s1 == IF s.sails_var # "None"
                THEN [s EXCEPT !.mrle_dropdown = "disabled"]
                ELSE IF s.selected_vcp \in {"VCP 212", "VCP 12"}
                     THEN [s EXCEPT !.mrle_dropdown = "normal"]
                     ELSE s
          s2 == [s1 EXCEPT !.running = FALSE, !.pattern_step_index = 0,
                           !.angle = 9000]
      IN advance_pattern_step(build_pattern_sequence(s2))

sails_selected_AlwaysReenable(s) ==
    IF ~s.vcp_selected THEN [s EXCEPT !.sails_var = "None"]
    ELSE
      LET s1 == IF s.sails_var # "None"
                THEN [s EXCEPT !.mrle_var = "None", !.mrle_dropdown = "disabled"]
                ELSE [s EXCEPT !.mrle_dropdown = "normal"]
          s2 == [s1 EXCEPT !.running = FALSE, !.pattern_step_index = 0,
                           !.angle = 9000]
      IN advance_pattern_step(build_pattern_sequence(s2))

(* sails_selected, entered with sails_var already set by the menu command *)
sails_selected(s) ==
    IF ~s.vcp_selected THEN [s EXCEPT !.sails_var = "None"]
    ELSE
      LET s1 == IF s.sails_var # "None"
                THEN [s EXCEPT !.mrle_var = "None", !.mrle_dropdown = "disabled"]
                ELSE IF s.selected_vcp \in {"VCP 212", "VCP 12"}
                     THEN [s EXCEPT !.mrle_dropdown = "normal"]
                     ELSE s
          s2 == [s1 EXCEPT !.running = FALSE, !.pattern_step_index = 0,
                           !.angle = 9000]
      IN advance_pattern_step(build_pattern_sequence(s2))

set_sails(s, value) == sails_selected([s EXCEPT !.sails_var = value])

mrle_selected_NoRebuild(s) ==
    IF ~s.vcp_selected THEN [s EXCEPT !.mrle_var = "None"]
    ELSE
      LET s1 == IF s.mrle_var # "None"
                THEN [s EXCEPT !.sails_var = "None", !.sails_dropdown = "disabled"]
                ELSE [s EXCEPT !.sails_dropdown = "normal"]
          s2 == [s1 EXCEPT !.running = FALSE, !.pattern_step_index = 0,
                           !.angle = 9000]
      IN advance_pattern_step(s2)

(* mrle_selected, entered with mrle_var already set by the menu command *)
mrle_selected(s) ==
    IF ~s.vcp_selected THEN [s EXCEPT !.mrle_var = "None"]
    ELSE
      LET s1 == IF s.mrle_var # "None"
                THEN [s EXCEPT !.sails_var = "None", !.sails_dropdown = "disabled"]
                ELSE [s EXCEPT !.sails_dropdown = "normal"]
          s2 == [s1 EXCEPT !.running = FALSE, !.pattern_step_index = 0,
                           !.angle = 9000]
      IN advance_pattern_step(build_pattern_sequence(s2))

set_vcp_NoStop(s, vcp_name) ==
    LET mrleState == IF vcp_name \in {"VCP 212", "VCP 12"}
                     THEN "normal" ELSE "disabled"
        s1 == [s EXCEPT !.vcp_selected = TRUE,
                        !.toggle_button = "normal",
                        !.selected_vcp = vcp_name,
                        !.sails_var = "None",
                        !.mrle_var = "None",
                        !.mrle_dropdown = mrleState,
                        !.sails_menu = IF vcp_name = "VCP 35"
                                       THEN {"None", "SAILS 1"}
                                       ELSE {"None", "SAILS 1", "SAILS 2", "SAILS 3"},
                        !.sails_dropdown = "normal"]
        s2 == advance_pattern_step(build_pattern_sequence(s1))
        s3 == [s2 EXCEPT !.mrle_dropdown = mrleState,
                         !.mrle_var = IF mrleState = "disabled" THEN "None" ELSE @]
    IN advance_pattern_step(build_pattern_sequence(s3))

set_vcp(s, vcp_name) ==
    LET mrleState == IF vcp_name \in {"VCP 212", "VCP 12"}
                     THEN "normal" ELSE "disabled"
        s1 == [s EXCEPT !.running = FALSE,
                        !.vcp_selected = TRUE,
                        !.toggle_button = "normal",
                        !.selected_vcp = vcp_name,
                        !.sails_var = "None",
                        !.mrle_var = "None",
                        !.mrle_dropdown = mrleState,
                        !.sails_menu = IF vcp_name = "VCP 35"
                                       THEN {"None", "SAILS 1"}
                                       ELSE {"None", "SAILS 1", "SAILS 2", "SAILS 3"},
                        !.sails_dropdown = "normal"]
        s2 == advance_pattern_step(build_pattern_sequence(s1))
        s3 == [s2 EXCEPT !.mrle_dropdown = mrleState,
                         !.mrle_var = IF mrleState = "disabled" THEN "None" ELSE @]
    IN advance_pattern_step(build_pattern_sequence(s3))

(* ---------------- events ---------------------------------------------- *)

(* a VCP button is pressed *)
ClickVcp(vcp_name) ==
    /\ Assign(set_vcp(Self, vcp_name))
    /\ lastOp' = "set_vcp"

(* an entry of the SAILS menu is chosen; a disabled menu cannot be opened *)
ChooseSails ==
    /\ sails_dropdown = "normal"
    /\ \E value \in sails_menu : Assign(set_sails(Self, value))
    /\ lastOp' = "sails_selected"

(* an entry of the MRLE menu is chosen: the variable is set, then the      *)
(* command runs                                                            *)
ChooseMrle ==
    /\ mrle_dropdown = "normal"
    /\ \E value \in mrle_menu :
          Assign(mrle_selected([Self EXCEPT !.mrle_var = value]))
    /\ lastOp' = "mrle_selected"

(* the speed button is pressed *)
ClickSpeed ==
    /\ Assign(speed_multiply(Self))
    /\ lastOp' = "speed_multiply"

(* toggle_animation runs; the guard keeps the number of scheduled          *)
(* callbacks within the model's bound                                      *)
CallToggle ==
    /\ pending < MaxPending
    /\ Assign(toggle_animation(Self))
    /\ lastOp' = "toggle_animation"

(* the Run/Stop button is pressed; it is disabled until a VCP is chosen *)
ClickRun ==
    /\ toggle_button = "normal"
    /\ CallToggle

(* a scheduled animate callback fires *)
Tick ==
    /\ pending > 0
    /\ Assign(animate([Self EXCEPT !.pending = @ - 1]))
    /\ lastOp' = "animate"

Next ==
    \/ \E vcp_name \in vcp_buttons : ClickVcp(vcp_name)
    \/ ChooseSails
    \/ ChooseMrle
    \/ ClickSpeed
    \/ ClickRun
    \/ Tick

Spec == Init /\ [][Next]_vars

(* The handlers called as methods: set_vcp with any name, among them one   *)
(* the catalog has no entry for, and toggle_animation whatever the state   *)
(* of the button.                                                          *)
ApiNames == {"VCP 35", UnknownVcp}

NextApi ==
    \/ \E vcp_name \in ApiNames : ClickVcp(vcp_name)
    \/ ChooseSails
    \/ ChooseMrle
    \/ ClickSpeed
    \/ CallToggle
    \/ Tick

SpecApi == Init /\ [][NextApi]_vars

(* The selection handlers and toggle_animation called as methods, whatever *)
(* the state of the widgets that front them.                               *)
CallSails ==
    /\ \E value \in {"None", "SAILS 1", "SAILS 2", "SAILS 3"} :
          Assign(set_sails(Self, value))
    /\ lastOp' = "sails_selected"

CallMrle ==
    /\ \E value \in mrle_menu :
          Assign(mrle_selected([Self EXCEPT !.mrle_var = value]))
    /\ lastOp' = "mrle_selected"

CallNames == {"VCP 212"}

NextCall ==
    \/ \E vcp_name \in CallNames : ClickVcp(vcp_name)
    \/ CallSails
    \/ CallMrle
    \/ ClickSpeed
    \/ CallToggle
    \/ Tick

SpecCall == Init /\ [][NextCall]_vars

(* The selection handlers alone, called as methods with every VCP and      *)
(* every menu entry: each call rebuilds the sequence.                      *)
NextSel ==
    \/ \E vcp_name \in vcp_buttons : ClickVcp(vcp_name)
    \/ CallSails
    \/ CallMrle
    \/ ClickSpeed

SpecSel == Init /\ [][NextSel]_vars

(* One uninterrupted pass: a VCP and a speed are chosen, Run is pressed,   *)
(* and from then on only the scheduled callbacks run.  Tk's event loop     *)
(* runs every callback root.after has scheduled, hence the weak fairness.  *)
Setup == lastOp \in {"init", "set_vcp", "speed_multiply"}

NextPass ==
    \/ Setup /\ \E vcp_name \in vcp_buttons : ClickVcp(vcp_name)
    \/ Setup /\ ClickSpeed
    \/ Setup /\ ClickRun
    \/ Tick

SpecPass == Init /\ [][NextPass]_vars /\ WF_vars(Tick)

TypeOK ==
    /\ running \in BOOLEAN
    /\ pending \in 0..MaxPending
    /\ speed_multiplier \in {1, 2, 4, 8}

(* ---------------- properties ------------------------------------------ *)

(* the render attributes are those of the first step of the sequence *)
FirstStepLoaded ==
    /\ pattern_sequence # << >>
    /\ LET first == pattern_sequence[1] IN
       /\ sweep_speed = first.speed * speed_multiplier
       /\ cone_angle_width = first.cone_width
       /\ current_label = first.label
       /\ \/ first.label # "Z/V" /\ sweep_radius = first.range
          \/ first.label = "Z/V" /\ sweep_radius >= first.range_z
                                 /\ sweep_radius >= first.range_v
                                 /\ sweep_radius \in {first.range_z, first.range_v}

(* C1: after set_vcp, from any state, the step index is 0, the first       *)
(* step's speed, width, radius and label are loaded and the angle is 90.   *)
C1_SelectVcpLoadsFirstStep ==
    lastOp = "set_vcp" =>
        /\ pattern_step_index = 0
        /\ FirstStepLoaded
        /\ angle = 9000

(* C2: at most one animate callback is pending in any reachable state.     *)
C2_AtMostOnePendingTick == pending <= 1

(* C3: speed_multiply with a loaded sequence leaves the step index and the *)
(* angle unchanged.                                                        *)
C3_CycleSpeedKeepsPosition ==
    [][(lastOp' = "speed_multiply" /\ pattern_sequence # << >>) =>
          (pattern_step_index' = pattern_step_index /\ angle' = angle)]_vars

(* C4: with a VCP selected whose sequence is empty, toggle_animation       *)
(* leaves running false and schedules no tick.                             *)
C4_EmptySequenceToggleIsNoOp ==
    [][(lastOp' = "toggle_animation" /\ vcp_selected /\ ~running
            /\ pattern_sequence = << >>) =>
          (running' = FALSE /\ pending' = pending)]_vars

(* C5: the SAILS and MRLE selections are never both different from None.   *)
C5_MutualExclusion == ~(sails_var # "None" /\ mrle_var # "None")

C5_Witness ==
    /\ lastOp = "sails_selected"
    /\ sails_var # "None"
    /\ sails_dropdown = "disabled"

(* C6: once running on a base pattern, with only ticks firing, the machine *)
(* eventually is stopped at step index 0 with no tick pending, for good.   *)
C6_PassAutoStops ==
    running ~> [](~running /\ pattern_step_index = 0 /\ pending = 0)

C6_Witness ==
    /\ lastOp = "animate"
    /\ vcp_selected
    /\ ~running
    /\ pattern_step_index = 0
    /\ pending = 0

(* C7 as stated: toggle_animation from Stopped with a non-empty sequence   *)
(* leaves running true, step index 0, the first step loaded and angle 90.  *)
C7_RestartAtAngle90 ==
    [][(lastOp' = "toggle_animation" /\ vcp_selected /\ ~running
            /\ pattern_sequence # << >>) =>
          (running' /\ pattern_step_index' = 0 /\ FirstStepLoaded'
            /\ angle' = 9000)]_vars

(* C7 amended: toggle_animation from Stopped with a non-empty sequence     *)
(* leaves running true, step index 0 and the first step loaded; the first  *)
(* tick runs inside the call, so the angle is 90 less one increment of     *)
(* the first step, abs(speed) * speed_multiplier * 5, and one more         *)
(* callback is scheduled.                                                  *)
C7_RestartFromFirstStep ==
    [][(lastOp' = "toggle_animation" /\ vcp_selected /\ ~running
            /\ pattern_sequence # << >>) =>
          (/\ running'
           /\ pattern_step_index' = 0
           /\ FirstStepLoaded'
           /\ angle' = 9000 - Abs(pattern_sequence[1].speed) * speed_multiplier * 5
           /\ pending' = pending + 1)]_vars

C7_Witness ==
    /\ lastOp = "toggle_animation"
    /\ running
    /\ pending = 2
    /\ pattern_step_index = 0

(* C8: toggle_animation from Running clears running and leaves the step    *)
(* index, angle, sequence, multiplier and both selections as they were,    *)
(* and so does a scheduled tick that fires while stopped.                  *)
C8_StopPreservesPosition ==
    [][((lastOp' = "toggle_animation" /\ running)
          \/ (lastOp' = "animate" /\ ~running)) =>
          (/\ running' = FALSE
           /\ UNCHANGED <<pattern_step_index, angle, pattern_sequence,
                          speed_multiplier, sails_var, mrle_var>>)]_vars

C8_Witness ==
    /\ lastOp = "animate"
    /\ ~running
    /\ pattern_step_index > 0
    /\ angle < 9000
    /\ pending = 0

(* C9: after sails_selected or mrle_selected with a VCP selected, running  *)
(* is false, the step index is 0, the angle is 90 and the first step of    *)
(* the sequence is loaded.                                                 *)
C9_SelectionResets ==
    (lastOp \in {"sails_selected", "mrle_selected"} /\ vcp_selected) =>
        /\ ~running
        /\ pattern_step_index = 0
        /\ angle = 9000
        /\ FirstStepLoaded

C9_Witness ==
    /\ lastOp = "sails_selected"
    /\ vcp_selected
    /\ sails_var = "SAILS 2"
    /\ pending = 1

(* C10: after set_vcp, running is false and both selections are None.      *)
C10_SelectVcpClearsSelections ==
    lastOp = "set_vcp" =>
        /\ ~running
        /\ sails_var = "None"
        /\ mrle_var = "None"

C10_Witness ==
    /\ lastOp = "set_vcp"
    /\ pending = 1
    /\ sails_dropdown = "normal"
    /\ pattern_step_index > 0


(* C11: while no VCP has been selected, toggle_animation, sails_selected   *)
(* and mrle_selected leave running, the sequence, the step index, the      *)
(* angle and both selections as they were, and only set_vcp ends that      *)
(* state.                                                                  *)
C11_IdleHandlersMutateNothing ==
    [][~vcp_selected =>
          /\ lastOp' \in {"toggle_animation", "sails_selected", "mrle_selected"} =>
                /\ UNCHANGED <<running, pattern_sequence, pattern_step_index,
                               angle, sails_var, mrle_var, vcp_selected>>
                /\ running' = FALSE
                /\ pattern_sequence' = << >>
                /\ sails_var' = "None" /\ mrle_var' = "None"
          /\ vcp_selected' => lastOp' = "set_vcp"]_vars

C11_Witness ==
    /\ ~vcp_selected
    /\ lastOp = "toggle_animation"
    /\ speed_multiplier = 4


(* C12: with a SAILS choice, the sequence is the base pattern, in order,   *)
(* with one Z@0.5 / V@0.5 block right after the last step of each anchor   *)
(* elevation present in the base; absent anchors add nothing; the 1.3      *)
(* anchor of SAILS 3 is the V-labelled step; SAILS 1 on VCP 212 gives      *)
(* 17 + 2 steps with the block right after the 3.1 step.                   *)
C12_SailsBlocksAfterAnchors ==
    (vcp_selected /\ sails_var # "None") =>
      LET b == patterns(selected_vcp)
          q == pattern_sequence
          anchors == { sails_insert_points(sails_var)[i] :
                          i \in DOMAIN sails_insert_points(sails_var) }
          P == { k \in 1..Len(b) :
                   /\ b[k].angle \in anchors
                   /\ \A j \in (k + 1)..Len(b) : b[j].angle # b[k].angle }
          pos(k) == k + 2 * Cardinality({ p \in P : p < k })
      IN /\ Len(q) = Len(b) + 2 * Cardinality(P)
         /\ \A k \in 1..Len(b) : q[pos(k)] = b[k]
         /\ \A p \in P :
              /\ q[pos(p) + 1].label = "Z" /\ q[pos(p) + 1].angle = "0.5"
              /\ q[pos(p) + 2].label = "V" /\ q[pos(p) + 2].angle = "0.5"
              /\ (sails_var = "SAILS 3" /\ b[p].angle = "1.3") => b[p].label = "V"
         /\ (selected_vcp = "VCP 212" /\ sails_var = "SAILS 1") =>
              /\ Len(q) = 19
              /\ q[9].angle = "3.1"
              /\ q[10].label = "Z" /\ q[10].angle = "0.5"
              /\ q[11].label = "V" /\ q[11].angle = "0.5"
              /\ q[12].angle = "4.0"

C12_Witness ==
    /\ vcp_selected
    /\ selected_vcp = "VCP 35"
    /\ sails_var = "SAILS 3"
    /\ Len(pattern_sequence) = 16


(* C13: on VCP 12 and VCP 212 with MRLE k, the sequence is the base        *)
(* pattern with one contiguous block right after the last 5.1 step: Z, V   *)
(* at 0.5 and 0.9, then Z, V at 1.3 when k >= 3, then one Z/V at 1.8 when  *)
(* k = 4, i.e. 4, 6 or 7 steps; the other steps keep their order.          *)
C13_MrleBlockAfterLast51 ==
    (vcp_selected /\ selected_vcp \in {"VCP 12", "VCP 212"} /\ mrle_var # "None") =>
      LET b == patterns(selected_vcp)
          q == pattern_sequence
          p == CHOOSE k \in 1..Len(b) :
                  /\ b[k].angle = "5.1"
                  /\ \A j \in (k + 1)..Len(b) : b[j].angle # "5.1"
          n == CASE mrle_var = "MRLE 2" -> 4
                 [] mrle_var = "MRLE 3" -> 6
                 [] mrle_var = "MRLE 4" -> 7
          expected == << <<"Z", "0.5">>, <<"V", "0.5">>, <<"Z", "0.9">>,
                         <<"V", "0.9">>, <<"Z", "1.3">>, <<"V", "1.3">>,
                         <<"Z/V", "1.8">> >>
      IN /\ Len(q) = Len(b) + n
         /\ SubSeq(q, 1, p) = SubSeq(b, 1, p)
         /\ SubSeq(q, p + n + 1, Len(q)) = SubSeq(b, p + 1, Len(b))
         /\ \A i \in 1..n : /\ q[p + i].label = expected[i][1]
                            /\ q[p + i].angle = expected[i][2]

C13_Witness ==
    /\ vcp_selected
    /\ selected_vcp = "VCP 12"
    /\ mrle_var = "MRLE 3"
    /\ Len(pattern_sequence) = 23


(* C14: an MRLE choice is only ever active with VCP 12 or VCP 212          *)
(* selected.                                                               *)
C14_MrleOnlyOnVcp12Or212 ==
    mrle_var # "None" => (vcp_selected /\ selected_vcp \in {"VCP 12", "VCP 212"})

C14_Witness ==
    /\ selected_vcp = "VCP 35"
    /\ lastOp = "sails_selected"
    /\ sails_var = "None"
    /\ mrle_dropdown = "disabled"

(* C15: with a VCP selected, the sequence is the one built from the        *)
(* current VCP, SAILS and MRLE selections alone; with both selections None *)
(* it is the base pattern.                                                 *)
C15_SequenceFromCurrentSelections ==
    vcp_selected =>
        /\ pattern_sequence = BuildSequence(selected_vcp, sails_var, mrle_var)
        /\ (sails_var = "None" /\ mrle_var = "None") =>
              pattern_sequence = patterns(selected_vcp)

C15_Witness ==
    /\ vcp_selected
    /\ lastOp = "mrle_selected"
    /\ mrle_var = "None"
    /\ selected_vcp = "VCP 12"
    /\ pattern_sequence = VCP12
    /\ pending = 1

(* C16: the multiplier is always 1, 2, 4 or 8; speed_multiply maps it      *)
(* 1 -> 2 -> 4 -> 8 -> 1 and no other handler changes it.                  *)
C16_SpeedCycle ==
    [][/\ speed_multiplier \in {1, 2, 4, 8}
       /\ speed_multiplier' \in {1, 2, 4, 8}
       /\ IF lastOp' = "speed_multiply"
          THEN speed_multiplier' = (CASE speed_multiplier = 1 -> 2
                                      [] speed_multiplier = 2 -> 4
                                      [] speed_multiplier = 4 -> 8
                                      [] speed_multiplier = 8 -> 1)
          ELSE speed_multiplier' = speed_multiplier]_vars

C16_Witness ==
    /\ lastOp = "speed_multiply"
    /\ speed_multiplier = 1
    /\ running


(* C17: every step of the sequence has the ScanStep shape: a Z/V step has  *)
(* range_z and range_v and no range; a Z or V step has range and neither   *)
(* range_z nor range_v.                                                    *)
C17_StepShape ==
    \A k \in DOMAIN pattern_sequence :
        LET fields == DOMAIN pattern_sequence[k] IN
        IF pattern_sequence[k].label = "Z/V"
        THEN /\ "range_z" \in fields
             /\ "range_v" \in fields
             /\ "range" \notin fields
        ELSE /\ pattern_sequence[k].label \in {"Z", "V"}
             /\ "range" \in fields
             /\ "range_z" \notin fields
             /\ "range_v" \notin fields

C17_Witness ==
    /\ selected_vcp = "VCP 212"
    /\ mrle_var = "MRLE 4"
    /\ Len(pattern_sequence) = 24
    /\ pattern_sequence[18].label = "Z/V"

(* the render attributes are those of the step at pattern_step_index *)
CurrentStepLoaded ==
    /\ pattern_step_index < Len(pattern_sequence)
    /\ LET step == pattern_sequence[pattern_step_index + 1] IN
       /\ sweep_speed = step.speed * speed_multiplier
       /\ cone_angle_width = step.cone_width
       /\ current_label = step.label
       /\ \/ step.label # "Z/V" /\ sweep_radius = step.range
          \/ step.label = "Z/V" /\ sweep_radius >= step.range_z
                                /\ sweep_radius >= step.range_v
                                /\ sweep_radius \in {step.range_z, step.range_v}

(* C18: a tick while running moves the step index by at most one step: it *)
(* is incremented exactly when the decremented angle is <= -270; then the  *)
(* angle is 90 again and either the next step is loaded or, at the last    *)
(* step, the index wraps to 0 and running becomes false; otherwise the     *)
(* index is unchanged.                                                     *)
C18_TickAdvancesAtMostOneStep ==
    [][(lastOp' = "animate" /\ running) =>
          LET step == pattern_sequence[pattern_step_index + 1]
              dec == angle - Abs(step.speed) * speed_multiplier * 5
          IN IF dec <= -27000
             THEN /\ angle' = 9000
                  /\ IF pattern_step_index + 1 < Len(pattern_sequence)
                     THEN /\ pattern_step_index' = pattern_step_index + 1
                          /\ running'
                          /\ CurrentStepLoaded'
                     ELSE /\ pattern_step_index' = 0
                          /\ ~running'
             ELSE /\ pattern_step_index' = pattern_step_index
                  /\ running']_vars

C18_Witness ==
    /\ lastOp = "animate"
    /\ running
    /\ speed_multiplier = 8
    /\ pattern_step_index = 7
    /\ angle = 9000

(* C19: a tick while running that does not cross the step boundary lowers  *)
(* the angle by abs(speed of the current step) * speed_multiplier * 5;     *)
(* from 90 with speed -0.35 at 1x the angle becomes 88.25.                 *)
C19_TickDecrement ==
    [][(lastOp' = "animate" /\ running) =>
          LET step == pattern_sequence[pattern_step_index + 1]
              dec == angle - Abs(step.speed) * speed_multiplier * 5
          IN /\ dec > -27000 => angle' = dec
             /\ (angle = 9000 /\ step.speed = -35 /\ speed_multiplier = 1) =>
                   angle' = 8825]_vars

C19_Witness ==
    /\ lastOp = "animate"
    /\ running
    /\ speed_multiplier = 1
    /\ sweep_speed = -35
    /\ pattern_step_index = 2
    /\ angle = 8825

(* C20: whenever the sequence is non-empty the step index is within it.    *)
C20_IndexInRange ==
    pattern_sequence # << >> =>
        (0 <= pattern_step_index /\ pattern_step_index < Len(pattern_sequence))

C20_Witness ==
    /\ lastOp = "set_vcp"
    /\ selected_vcp = "VCP 35"
    /\ pattern_step_index = 11
    /\ pending = 1


(* C21: in every reachable state the angle is above -270 and at most 90.   *)
C21_AngleInSweepInterval ==
    -27000 < angle /\ angle <= 9000

C21_Witness ==
    /\ lastOp = "animate"
    /\ running
    /\ angle = -26960

(* C22: whenever running, the loaded label, cone width and radius are      *)
(* those of the step at pattern_step_index and the loaded speed is that    *)
(* step's speed times the multiplier.                                      *)
C22_RunningStepLoaded ==
    running => CurrentStepLoaded

C22_Witness ==
    /\ running
    /\ lastOp = "speed_multiply"
    /\ speed_multiplier = 2
    /\ pattern_step_index = 6
    /\ current_label = "Z/V"

====
